---- MODULE Spec2Model ----
(***************************************************************************)
(* Model of src/build_tools/update_deps.py: the dependency fetcher of the  *)
(* legacy GYP build.  One invocation of main() is a sequential program;    *)
(* the state is the disk (cache directory, extraction destination), the    *)
(* parsed flags, the position of main() and the trace of what the          *)
(* invocation did (effects, printed messages, call/return markers).        *)
(* Several invocations follow one another on the same disk.                *)
(*                                                                         *)
(* Scale: file contents are byte sequences over Bytes of length at most    *)
(* MaxLen, an archive's expected size is the length of its expected        *)
(* content, and a response chunk (chunk_size=8192 in the source) is one    *)
(* byte.  SHA-256 is modelled as an injective encoding of the bytes        *)
(* (collision freedom), computed incrementally chunk by chunk.             *)
(* The two ninja archives, never selected on the same platform, share the *)
(* modelled content and differ by URL.  A zip member is identified with   *)
(* the bytes of the archive it comes from.                                *)
(* The progress line of ProgressPrinter is not part of the trace.          *)
(***************************************************************************)
EXTENDS Integers, Sequences, FiniteSets, TLC

VARIABLES
  platform,   \* [name, uname]: os.name and os.uname()[0]
  cacheDir,   \* TRUE iff the directory CACHE_DIR exists
  cache,      \* filename -> file record, the content of CACHE_DIR
  dest,       \* the directory third_party/ninja: [exists, files]
  flags,      \* args of the current (or last) invocation
  archives,   \* main's local list `archives`
  idx,        \* position of the for loop over archives (1-based)
  pc,         \* position of main
  log,        \* trace of the current invocation
  call,       \* observation of the last download() call
  runs,       \* number of invocations started
  cacheDir0, cache0, dest0,  \* the disk when the current invocation started
  warm,       \* the previous invocation returned normally with the same flags
  afterDry,   \* the previous invocation was the dry run of this one
  prevOut,    \* what that dry run printed
  leftover,   \* files left behind by a failed download and not re-checked since
  result,     \* how the previous invocation ended: "none", "done" or "failed"
  lastOut     \* what the previous invocation printed, if it was a dry run

vars == <<platform, cacheDir, cache, dest, flags, archives, idx, pc, log, call,
          runs, cacheDir0, cache0, dest0, warm, afterDry, prevOut, leftover,
          result, lastOut>>

-----------------------------------------------------------------------------
(* Bounds *)

MaxLen == 1
MaxRuns == 2

Bytes == 0..1

Bodies == UNION {[1..n -> Bytes] : n \in 0..MaxLen}

-----------------------------------------------------------------------------
(* Pure helpers *)

RECURSIVE hexdigest(_)
\* hashlib's digest of the bytes fed so far: injective in the byte sequence.
hexdigest(bytes) ==
  IF bytes = <<>> THEN 0
  ELSE (bytes[1] + 1) + 3 * hexdigest(Tail(bytes))

NoFile == [exists |-> FALSE, data |-> <<>>]

File(bytes) == [exists |-> TRUE, data |-> bytes]

st_size(f) == Len(f.data)

get_sha256(f) == hexdigest(f.data)

\* The registry.  url is the URL split at '/'.
QT6 ==
  [url |-> <<"https:", "", "download.qt.io", "archive", "qt", "6.8", "6.8.0",
             "submodules", "qtbase-everywhere-src-6.8.0.tar.xz">>,
   size |-> 1,
   sha256 |-> hexdigest(<<0>>)]

NINJA_MAC ==
  [url |-> <<"https:", "", "github.com", "ninja-build", "ninja", "releases",
             "download", "v1.11.0", "ninja-mac.zip">>,
   size |-> 1,
   sha256 |-> hexdigest(<<1>>)]

NINJA_WIN ==
  [url |-> <<"https:", "", "github.com", "ninja-build", "ninja", "releases",
             "download", "v1.11.0", "ninja-win.zip">>,
   size |-> 1,
   sha256 |-> hexdigest(<<1>>)]

Registry == {QT6, NINJA_MAC, NINJA_WIN}

filename(a) == a.url[Len(a.url)]

Filenames == {filename(a) : a \in Registry}

is_windows(p) == p.name = "nt"

is_mac(p) == p.name = "posix" /\ p.uname = "Darwin"

Platforms ==
  {[name |-> "nt", uname |-> "Windows"],
   [name |-> "posix", uname |-> "Darwin"],
   [name |-> "posix", uname |-> "Linux"]}

Flags ==
  [dryrun : BOOLEAN, noninja : BOOLEAN, noqt : BOOLEAN, nowix : BOOLEAN,
   nosubmodules : BOOLEAN, cache_only : BOOLEAN]

Ev(k, a, d) == [k |-> k, a |-> a, d |-> d]

-----------------------------------------------------------------------------
(* download(archive, dryrun) *)

\* Mutants of cache_hit: the size compared with !=, the digest compared with
\* a value it never equals.
cache_hit_size_neq(f, a) == st_size(f) # a.size /\ get_sha256(f) = a.sha256

cache_hit_sha_never(f, a) == st_size(f) = a.size /\ get_sha256(f) = a.sha256 + 3

\* The condition of the cache hit, on a path that exists.
cache_hit(f, a) == st_size(f) = a.size /\ get_sha256(f) = a.sha256

\* Mutants of stale_branch: the unlink done under --dryrun too; the unlink
\* left out.
stale_branch_unlinks_in_dryrun(f, a, dry) ==
  [file |-> NoFile, ev |-> <<Ev("unlink", filename(a), f.data)>>]

stale_branch_keeps_file(f, a, dry) ==
  IF dry
  THEN [file |-> f, ev |-> <<Ev("print_removing", filename(a), <<>>)>>]
  ELSE [file |-> f, ev |-> <<>>]

\* The stale-file branch: what happens to a path that exists and is no hit.
stale_branch(f, a, dry) ==
  IF dry
  THEN [file |-> f, ev |-> <<Ev("print_removing", filename(a), <<>>)>>]
  ELSE [file |-> NoFile, ev |-> <<Ev("unlink", filename(a), f.data)>>]

\* `if dryrun: print(...); return` in front of the transfer.
dryrun_returns(dry) == dry

RECURSIVE iter_content(_, _)
\* The chunk loop: every chunk is written, hashed and counted.
iter_content(chunks, st) ==
  IF chunks = <<>> THEN st
  ELSE iter_content(Tail(chunks),
                    [file |-> Append(st.file, chunks[1]),
                     hasher |-> Append(st.hasher, chunks[1]),
                     saved |-> st.saved + 1])

\* Mutant of verify_download: the digest is not compared.
verify_download_size_only(a, saved, hasher) ==
  IF saved # a.size THEN "size mismatch" ELSE "return"

\* The two checks after the transfer, size first.
verify_download(a, saved, hasher) ==
  IF saved # a.size THEN "size mismatch"
  ELSE IF hexdigest(hasher) # a.sha256 THEN "sha256 mismatch"
  ELSE "return"

\* download(a, dry) on cache directory (dir, c) when the server answers body.
\* Result: the new cache directory, the trace and how the call ended.
download(a, dry, dir, c, body) ==
  LET fn == filename(a)
      f == c[fn]
      stale == IF f.exists /\ ~cache_hit(f, a)
               THEN stale_branch(f, a, dry)
               ELSE [file |-> f, ev |-> <<>>]
      st == iter_content(body, [file |-> <<>>, hasher |-> <<>>, saved |-> 0])
  IN  IF f.exists /\ cache_hit(f, a)
      THEN [cacheDir |-> dir, cache |-> c, ev |-> <<>>, ret |-> "return"]
      ELSE IF dryrun_returns(dry)
      THEN [cacheDir |-> dir,
            cache |-> [c EXCEPT ![fn] = stale.file],
            ev |-> stale.ev \o <<Ev("print_download", fn, <<>>)>>,
            ret |-> "return"]
      ELSE [cacheDir |-> TRUE,
            cache |-> [c EXCEPT ![fn] = File(st.file)],
            ev |-> stale.ev \o <<Ev("mkdir", fn, <<>>), Ev("get", fn, <<>>),
                                 Ev("write", fn, st.file)>>,
            ret |-> verify_download(a, st.saved, st.hasher)]

-----------------------------------------------------------------------------
(* extract_ninja(dryrun) *)

\* The archive and the member extract_ninja picks for the platform.
ninja_for(p) ==
  IF is_mac(p) THEN [archive |-> NINJA_MAC, exe |-> "ninja", any |-> TRUE]
  ELSE IF is_windows(p)
  THEN [archive |-> NINJA_WIN, exe |-> "ninja.exe", any |-> TRUE]
  ELSE [archive |-> NINJA_WIN, exe |-> "", any |-> FALSE]

\* zipfile.ZipFile(src) opens, and holds the member exe, when src is the
\* registry's archive; on a missing or other file it raises.
is_zip_with(f, a) ==
  f.exists /\ Len(f.data) = a.size /\ hexdigest(f.data) = a.sha256

\* z.extract(exe, path=dest): dest is created when missing, the member is
\* written over a file of the same name (which keeps its mode), every other
\* entry of dest stays.
zip_extract(d, exe, data) ==
  LET old == {e \in d.files : e.name = exe}
      x == \E e \in old : e.x
  IN  [exists |-> TRUE,
       files |-> (d.files \ old) \cup {[name |-> exe, data |-> data, x |-> x]}]

\* ninja.chmod(st_mode | S_IXUSR)
chmod_x(d, exe) ==
  [d EXCEPT !.files = {IF e.name = exe THEN [e EXCEPT !.x = TRUE] ELSE e : e \in d.files}]

extract_ninja(dry, p, c, d) ==
  LET n == ninja_for(p)
      fn == filename(n.archive)
      d1 == zip_extract(d, n.exe, c[fn].data)
  IN  IF ~n.any THEN [dest |-> d, ev |-> <<>>, ret |-> "return"]
      ELSE IF dry
      THEN [dest |-> d,
            ev |-> (IF d.exists THEN <<Ev("print_rmtree", "dest", <<>>)>> ELSE <<>>)
                   \o <<Ev("print_extracting", fn, <<>>)>>,
            ret |-> "return"]
      ELSE IF ~is_zip_with(c[fn], n.archive)
      THEN [dest |-> d, ev |-> <<Ev("open_zip", fn, c[fn].data)>>, ret |-> "raise"]
      ELSE IF is_mac(p)
      THEN [dest |-> chmod_x(d1, n.exe),
            ev |-> <<Ev("open_zip", fn, c[fn].data), Ev("extract", fn, c[fn].data),
                     Ev("chmod", n.exe, <<>>)>>,
            ret |-> "return"]
      ELSE [dest |-> d1,
            ev |-> <<Ev("open_zip", fn, c[fn].data), Ev("extract", fn, c[fn].data)>>,
            ret |-> "return"]

-----------------------------------------------------------------------------
(* The external provisioners; exitcode is the exit code of the subprocess. *)

update_submodules(dry, exitcode) ==
  IF dry
  THEN [ev |-> <<Ev("print_subprocess_run", "git submodule update", <<>>)>>,
        ret |-> "return"]
  ELSE [ev |-> <<Ev("spawn", "git submodule update", <<>>)>>,
        ret |-> IF exitcode = 0 THEN "return" ELSE "raise"]

exec_command(args, exitcode) ==
  [ev |-> <<Ev("spawn", args, <<>>)>>,
   ret |-> IF exitcode # 0 THEN "raise" ELSE "return"]

restore_dotnet_tools(dry, exitcode) ==
  IF dry
  THEN [ev |-> <<Ev("print_exec_command", "dotnet tool restore", <<>>)>>,
        ret |-> "return"]
  ELSE exec_command("dotnet tool restore", exitcode)

ExitCodes == {0, 1}

-----------------------------------------------------------------------------
(* main() *)

\* Mutant of select_archives: the build-accelerator archive appended first.
select_archives_ninja_first(f, p) ==
  (IF ~f.noninja
   THEN IF is_mac(p) THEN <<NINJA_MAC>>
        ELSE IF is_windows(p) THEN <<NINJA_WIN>> ELSE <<>>
   ELSE <<>>)
  \o (IF (~f.noqt) /\ (is_windows(p) \/ is_mac(p)) THEN <<QT6>> ELSE <<>>)

\* The list `archives` main builds from the flags and the platform.
select_archives(f, p) ==
  (IF (~f.noqt) /\ (is_windows(p) \/ is_mac(p)) THEN <<QT6>> ELSE <<>>)
  \o (IF ~f.noninja
      THEN IF is_mac(p) THEN <<NINJA_MAC>>
           ELSE IF is_windows(p) THEN <<NINJA_WIN>> ELSE <<>>
      ELSE <<>>)

\* `x in archives`
In(x, seq) == \E i \in 1..Len(seq) : seq[i] = x

\* Mutant of after_download: the exception is swallowed and the loop goes on.
after_download_swallowed(ret) == "download"

\* Where main goes when download() ends with ret: an exception is not caught.
after_download(ret) == IF ret = "return" THEN "download" ELSE "failed"

\* Mutant of after_loop: the cache_only return is missing.
after_loop_no_return(f) == "restore"

\* `if args.cache_only: return` after the loop.
after_loop(f) == IF f.cache_only THEN "done" ELSE "restore"

\* Mutant of wants_extract: extraction whatever was selected.
wants_extract_always(as) == TRUE

\* The conditions of the three later steps.
wants_restore(f, p) == (~f.nowix) /\ is_windows(p)

wants_submodules(f) == ~f.nosubmodules

wants_extract(as) == In(NINJA_WIN, as) \/ In(NINJA_MAC, as)

\* The trace of one call from main: call marker, what the callee did, and
\* how it ended.
Called(name, r) ==
  <<Ev("call", name, <<>>)>> \o r.ev
  \o <<Ev(IF r.ret = "return" THEN "return" ELSE "raise", name, <<>>)>>

NoCall == [a |-> QT6, pre |-> NoFile, dry |-> FALSE, ret |-> "none", from |-> 0, to |-> 0]

Printed(l) == SelectSeq(l, LAMBDA e : e.k \in {"print_removing", "print_download",
                  "print_exec_command", "print_rmtree", "print_extracting",
                  "print_subprocess_run"})

\* Files whose cache check ran in the invocation that just ended without
\* --dryrun, and the file a failed download left behind in it.
Rechecked ==
  IF flags.dryrun THEN {}
  ELSE {log[i].a : i \in {j \in 1..Len(log) : log[j].k = "call" /\ log[j].a \in Filenames}}

FailedNow ==
  IF pc = "failed" /\ call.ret \in {"size mismatch", "sha256 mismatch"}
  THEN {filename(call.a)} ELSE {}

NoFlags ==
  [dryrun |-> FALSE, noninja |-> FALSE, noqt |-> FALSE, nowix |-> FALSE,
   nosubmodules |-> FALSE, cache_only |-> FALSE]

\* argparse and the construction of `archives`.
Start(f) ==
  /\ pc = "idle"
  /\ runs < MaxRuns
  /\ runs' = runs + 1
  /\ flags' = f
  /\ archives' = select_archives(f, platform)
  /\ idx' = 1
  /\ pc' = "download"
  /\ log' = <<>>
  /\ call' = NoCall
  /\ cacheDir0' = cacheDir /\ cache0' = cache /\ dest0' = dest
  /\ warm' = (result = "done" /\ f = flags)
  /\ afterDry' = (result = "done" /\ flags.dryrun /\ f = [flags EXCEPT !.dryrun = FALSE])
  /\ prevOut' = IF afterDry' THEN lastOut ELSE <<>>
  /\ result' = "none"
  /\ lastOut' = <<>>
  /\ UNCHANGED <<platform, cacheDir, cache, dest, leftover>>

\* The process ends: main returned, or an exception left it.  What the next
\* invocation can depend on is the disk; the rest is kept for the record.
Exit ==
  /\ pc \in {"done", "failed"}
  /\ pc' = "idle"
  /\ result' = pc
  /\ lastOut' = IF pc = "done" /\ flags.dryrun THEN Printed(log) ELSE <<>>
  /\ leftover' = (leftover \ Rechecked) \cup FailedNow
  /\ flags' = IF pc = "done" THEN flags ELSE NoFlags
  /\ archives' = <<>>
  /\ idx' = 1
  /\ log' = <<>>
  /\ call' = NoCall
  /\ cacheDir0' = cacheDir /\ cache0' = cache /\ dest0' = dest
  /\ warm' = FALSE
  /\ afterDry' = FALSE
  /\ prevOut' = <<>>
  /\ UNCHANGED <<platform, cacheDir, cache, dest, runs>>

\* The answers the server may give to requests.get; <<>> stands for "not
\* asked" when download() returns before the request.
Responses(a, dry, c) ==
  IF dry \/ (c[filename(a)].exists /\ cache_hit(c[filename(a)], a))
  THEN {<<>>} ELSE Bodies

\* One iteration of `for archive in archives: download(archive, args.dryrun)`.
Download ==
  /\ pc = "download" /\ idx <= Len(archives)
  /\ \E body \in Responses(archives[idx], flags.dryrun, cache) :
       LET a == archives[idx]
           r == download(a, flags.dryrun, cacheDir, cache, body)
       IN  /\ cacheDir' = r.cacheDir
           /\ cache' = r.cache
           /\ log' = log \o Called(filename(a), r)
           /\ call' = [a |-> a, pre |-> cache[filename(a)], dry |-> flags.dryrun,
                       ret |-> r.ret, from |-> Len(log) + 1, to |-> Len(log')]
           /\ pc' = after_download(r.ret)
           /\ idx' = idx + 1
  /\ UNCHANGED <<platform, dest, flags, archives, runs, cacheDir0, cache0, dest0,
                 warm, afterDry, prevOut, leftover,
                 result, lastOut>>

\* The end of the loop and the cache_only return.
LoopEnd ==
  /\ pc = "download" /\ idx > Len(archives)
  /\ pc' = after_loop(flags)
  /\ UNCHANGED <<platform, cacheDir, cache, dest, flags, archives, idx, log, call,
                 runs, cacheDir0, cache0, dest0, warm, afterDry, prevOut, leftover,
                 result, lastOut>>

Restore ==
  /\ pc = "restore"
  /\ IF wants_restore(flags, platform)
     THEN \E exitcode \in ExitCodes :
            LET r == restore_dotnet_tools(flags.dryrun, exitcode)
            IN  /\ log' = log \o Called("restore_dotnet_tools", r)
                /\ pc' = IF r.ret = "return" THEN "extract" ELSE "failed"
     ELSE /\ log' = log
          /\ pc' = "extract"
  /\ UNCHANGED <<platform, cacheDir, cache, dest, flags, archives, idx, call,
                 runs, cacheDir0, cache0, dest0, warm, afterDry, prevOut, leftover,
                 result, lastOut>>

Extract ==
  /\ pc = "extract"
  /\ IF wants_extract(archives)
     THEN LET r == extract_ninja(flags.dryrun, platform, cache, dest)
          IN  /\ dest' = r.dest
              /\ log' = log \o Called("extract_ninja", r)
              /\ pc' = IF r.ret = "return" THEN "submodules" ELSE "failed"
     ELSE /\ dest' = dest
          /\ log' = log
          /\ pc' = "submodules"
  /\ UNCHANGED <<platform, cacheDir, cache, flags, archives, idx, call,
                 runs, cacheDir0, cache0, dest0, warm, afterDry, prevOut, leftover,
                 result, lastOut>>

Submodules ==
  /\ pc = "submodules"
  /\ IF wants_submodules(flags)
     THEN \E exitcode \in ExitCodes :
            LET r == update_submodules(flags.dryrun, exitcode)
            IN  /\ log' = log \o Called("update_submodules", r)
                /\ pc' = IF r.ret = "return" THEN "done" ELSE "failed"
     ELSE /\ log' = log
          /\ pc' = "done"
  /\ UNCHANGED <<platform, cacheDir, cache, dest, flags, archives, idx, call,
                 runs, cacheDir0, cache0, dest0, warm, afterDry, prevOut, leftover,
          result, lastOut>>

-----------------------------------------------------------------------------
(* The disk before the first invocation.  Only the files of the archives   *)
(* the platform can select are populated; the other files of the cache are *)
(* never read or written on that platform.                                 *)

InitCaches(p) ==
  {c \in [Filenames -> {NoFile} \cup {File(b) : b \in Bodies}] :
     \A fn \in Filenames :
       c[fn].exists =>
         \E i \in 1..Len(select_archives([noqt |-> FALSE, noninja |-> FALSE], p)) :
           filename(select_archives([noqt |-> FALSE, noninja |-> FALSE], p)[i]) = fn}

OldFiles ==
  {[name |-> "ninja", data |-> <<>>, x |-> FALSE],
   [name |-> "ninja.exe", data |-> <<>>, x |-> FALSE]}

InitDests ==
  {[exists |-> FALSE, files |-> {}]}
  \cup {[exists |-> TRUE, files |-> fs] : fs \in {{}, OldFiles}}

Init ==
  /\ platform \in Platforms
  /\ cache \in InitCaches(platform)
  /\ cacheDir \in {b \in BOOLEAN : (\E fn \in Filenames : cache[fn].exists) => b}
  /\ dest \in InitDests
  /\ flags = NoFlags
  /\ archives = <<>>
  /\ idx = 1
  /\ pc = "idle"
  /\ log = <<>>
  /\ call = NoCall
  /\ runs = 0
  /\ cacheDir0 = cacheDir /\ cache0 = cache /\ dest0 = dest
  /\ warm = FALSE
  /\ afterDry = FALSE
  /\ prevOut = <<>>
  /\ leftover = {}
  /\ result = "none"
  /\ lastOut = <<>>

Next ==
  \/ \E f \in Flags : Start(f)
  \/ Download
  \/ LoopEnd
  \/ Restore
  \/ Extract
  \/ Submodules
  \/ Exit

Spec == Init /\ [][Next]_vars

-----------------------------------------------------------------------------
(* Vocabulary of the properties *)

\* A cache entry that exists with the expected size and the expected SHA-256.
Matches(f, a) == f.exists /\ Len(f.data) = a.size /\ hexdigest(f.data) = a.sha256

ArchiveOf(fn) == CHOOSE a \in Registry : filename(a) = fn

At(k, a) == {i \in 1..Len(log) : log[i].k = k /\ log[i].a = a}

Kinds(ks) == {i \in 1..Len(log) : log[i].k \in ks}

\* What changes the disk, the network or the process table.
Mutating == {"unlink", "mkdir", "get", "write", "extract", "chmod", "spawn"}

Running == pc # "idle"

RECURSIVE IsSubseq(_, _)
IsSubseq(s, t) ==
  IF s = <<>> THEN TRUE
  ELSE IF t = <<>> THEN FALSE
  ELSE IF s[1] = t[1] THEN IsSubseq(Tail(s), Tail(t))
  ELSE IsSubseq(s, Tail(t))

IsPrefix(s, t) == Len(s) <= Len(t) /\ \A i \in 1..Len(s) : s[i] = t[i]

\* The message a dry run prints for an action of a real run.
Announcement(e) ==
  Ev(CASE e.k = "unlink" -> "print_removing"
       [] e.k = "get" -> "print_download"
       [] e.k = "extract" -> "print_extracting"
       [] e.k = "spawn" /\ e.a = "dotnet tool restore" -> "print_exec_command"
       [] OTHER -> "print_subprocess_run",
     e.a, <<>>)

Actions(l) == SelectSeq(l, LAMBDA e : e.k \in {"unlink", "get", "extract", "spawn"})

Announced(l) == [i \in 1..Len(Actions(l)) |-> Announcement(Actions(l)[i])]

Calls(l) ==
  LET cs == SelectSeq(l, LAMBDA e : e.k = "call")
  IN  [i \in 1..Len(cs) |-> cs[i].a]

\* The steps of a run in the order the orchestrator is specified to take
\* them, for flags f on platform p.
Plan(f, p) ==
  LET winmac == is_windows(p) \/ is_mac(p)
      ninja == IF is_mac(p) THEN NINJA_MAC ELSE NINJA_WIN
      selected == (~f.noninja) /\ winmac
  IN  (IF (~f.noqt) /\ winmac THEN <<filename(QT6)>> ELSE <<>>)
      \o (IF selected THEN <<filename(ninja)>> ELSE <<>>)
      \o (IF f.cache_only THEN <<>>
          ELSE (IF is_windows(p) /\ ~f.nowix THEN <<"restore_dotnet_tools">> ELSE <<>>)
               \o (IF selected THEN <<"extract_ninja">> ELSE <<>>)
               \o (IF ~f.nosubmodules THEN <<"update_submodules">> ELSE <<>>))

-----------------------------------------------------------------------------
(* Properties *)

\* The last download() call found a stale entry and ran without --dryrun.
StaleCall ==
  /\ call.ret # "none" /\ ~call.dry
  /\ call.pre.exists /\ ~Matches(call.pre, call.a)

\* That call deleted the entry and then requested the archive.
DeletedThenRequested ==
  \E i \in call.from..call.to :
    /\ log[i] = Ev("unlink", filename(call.a), call.pre.data)
    /\ \E j \in (i + 1)..call.to : log[j].k = "get" /\ log[j].a = filename(call.a)

\* C1: a download() call that finds a cache entry with the expected size and
\* SHA-256 returns normally, with dryrun set or not, without any request and
\* without deleting or rewriting the entry: its trace holds the call and the
\* return only, and the entry is the file it found.
C1_CacheHitLeavesFile ==
  (call.ret # "none" /\ Matches(call.pre, call.a)) =>
    /\ call.ret = "return"
    /\ cache[filename(call.a)] = call.pre
    /\ \A i \in call.from..call.to : log[i].k \in {"call", "return"}

C1_Witness ==
  /\ call.ret = "return" /\ Matches(call.pre, call.a)
  /\ ~call.dry /\ call.to - call.from = 1

\* C2 as stated: after a non-dry-run download() of an archive whose cache
\* entry has a wrong size or hash, the entry was deleted and requested again
\* and now matches the expected size and hash.
C2_StaleEntryAlwaysRepaired ==
  StaleCall =>
    /\ DeletedThenRequested
    /\ Matches(cache[filename(call.a)], call.a)

\* C2 amended: the stale entry is deleted and the archive requested again; if
\* the call returns normally the entry matches the expected size and hash,
\* otherwise the call raised, the run is over and the entry is the
\* mismatching download.
C2_StaleEntryRepairedOnReturn ==
  StaleCall =>
    /\ DeletedThenRequested
    /\ call.ret = "return" => Matches(cache[filename(call.a)], call.a)
    /\ call.ret # "return" =>
         /\ pc = "failed"
         /\ cache[filename(call.a)].exists
         /\ ~Matches(cache[filename(call.a)], call.a)

C2_Witness ==
  /\ StaleCall /\ call.ret = "return"
  /\ Matches(cache[filename(call.a)], call.a)
  /\ Len(call.pre.data) = call.a.size

\* C3: without --dryrun, a download that ends with a size or hash mismatch
\* ends the run there: the raise is the last thing the run does, the archive
\* was requested once, and no other call (a later archive, restore,
\* extraction, submodule sync) follows.
C3_MismatchAborts ==
  \A i \in Kinds({"write"}) :
    ~Matches(File(log[i].d), ArchiveOf(log[i].a)) =>
      /\ ~flags.dryrun
      /\ pc = "failed"
      /\ Len(log) = i + 1
      /\ log[i + 1] = Ev("raise", log[i].a, <<>>)
      /\ Cardinality(At("get", log[i].a)) = 1
      /\ \A j \in Kinds({"call"}) : j < i

C3_Witness ==
  /\ pc = "failed" /\ call.ret = "sha256 mismatch"
  /\ idx <= Len(archives)
  /\ wants_submodules(flags) /\ ~flags.cache_only


\* C4: with --dryrun, whatever the other flags, the platform and the cache,
\* the run changes nothing (cache files, cache directory, extraction
\* destination) and does nothing that mutates (no unlink, mkdir, request,
\* write, extraction, chmod or subprocess); and the run without --dryrun that
\* follows it with the same flags finds, for each of its actions (deleting a
\* stale entry, requesting an archive, restore, extraction, submodule sync),
\* one message of the dry run, in the same order.
C4_DryrunOnlyAnnounces ==
  /\ (Running /\ flags.dryrun) =>
       /\ cache = cache0 /\ cacheDir = cacheDir0 /\ dest = dest0
       /\ Kinds(Mutating \cup {"open_zip"}) = {}
  /\ (Running /\ afterDry) => IsSubseq(Announced(log), prevOut)

C4_Witness ==
  /\ afterDry /\ pc = "done"
  /\ Len(Actions(log)) >= 5
  /\ Kinds({"unlink"}) # {}
  /\ \E i \in 1..Len(prevOut) : prevOut[i].k = "print_rmtree"

\* C5: with --cache_only the run ends after the downloads, whatever --nowix,
\* --noninja, --nosubmodules and the platform are: nothing but download()
\* is called, nothing of restore, extraction or submodule sync is done or
\* printed, and the extraction destination is untouched.
C5_CacheOnlyStopsAfterDownloads ==
  (Running /\ flags.cache_only) =>
    /\ pc \in {"download", "done", "failed"}
    /\ \A i \in 1..Len(log) : log[i].a \in Filenames
    /\ Kinds({"spawn", "open_zip", "extract", "chmod", "print_exec_command",
              "print_rmtree", "print_extracting", "print_subprocess_run"}) = {}
    /\ dest = dest0

C5_Witness ==
  /\ flags.cache_only /\ pc = "done"
  /\ ~flags.nosubmodules /\ ~flags.nowix /\ ~flags.noninja /\ ~flags.dryrun
  /\ is_windows(platform)
  /\ Kinds({"get"}) # {}

\* C6: the calls of a run are a prefix of the plan (toolkit archive,
\* build-accelerator archive, restore, extraction, submodule sync, each only
\* if enabled) and all of it when the run returns; every call has ended
\* before the next one starts, and a call that raised is the last.
C6_StepsInPlanOrder ==
  Running =>
    /\ IsPrefix(Calls(log), Plan(flags, platform))
    /\ pc = "done" => Calls(log) = Plan(flags, platform)
    /\ \A i \in Kinds({"call"}) :
         \E j \in (i + 1)..Len(log) :
           /\ log[j].k \in {"return", "raise"} /\ log[j].a = log[i].a
           /\ \A m \in (i + 1)..(j - 1) : log[m].k \notin {"call", "return", "raise"}
    /\ \A j \in Kinds({"raise"}) : j = Len(log) /\ pc = "failed"
    /\ \A j \in Kinds({"return"}) : j < Len(log) => log[j + 1].k = "call"

C6_Witness ==
  /\ pc = "done" /\ ~flags.dryrun
  /\ Len(Calls(log)) = 5
  /\ Kinds({"get"}) # {}

\* C7 as stated: after a real extraction the destination holds the newly
\* extracted executable and nothing else.
C7_ExtractionReplacesDest ==
  (Kinds({"extract"}) # {}) =>
    /\ dest.exists
    /\ \A e \in dest.files :
         /\ e.name = (IF is_mac(platform) THEN "ninja" ELSE "ninja.exe")
         /\ Matches(File(e.data), IF is_mac(platform) THEN NINJA_MAC ELSE NINJA_WIN)

\* C8: a run with the flags of the previous run, which returned normally,
\* requests nothing, deletes no cache file and leaves the cache directory and
\* the extraction destination as the previous run left them.
C8_WarmRerunChangesNothing ==
  (Running /\ warm) =>
    /\ Kinds({"get", "unlink", "write", "mkdir"}) = {}
    /\ cache = cache0 /\ cacheDir = cacheDir0 /\ dest = dest0

C8_Witness ==
  /\ warm /\ pc = "done" /\ ~flags.dryrun
  /\ Len(archives) = 2
  /\ Kinds({"extract"}) # {} /\ Kinds({"chmod"}) # {}

\* The parts of C9 that do not depend on how far the next run gets: the file
\* of a failed download is on disk, as written, when the run ends; and a
\* cache file is deleted only without --dryrun and only when it does not
\* match its archive.
C9_KeptAndDeletedOnlyIfStale ==
  /\ (pc = "failed" /\ call.ret \in {"size mismatch", "sha256 mismatch"}) =>
       /\ cache[filename(call.a)].exists
       /\ log[call.to - 1] = Ev("write", filename(call.a), cache[filename(call.a)].data)
       /\ filename(call.a) \notin {log[i].a : i \in {j \in Kinds({"unlink"}) : j >= call.to - 1}}
  /\ \A i \in Kinds({"unlink"}) :
       /\ ~flags.dryrun
       /\ ~Matches(File(log[i].d), ArchiveOf(log[i].a))
       /\ log[i - 1] = Ev("call", log[i].a, <<>>)

\* C9 as stated: the run without --dryrun that next selects the archive of a
\* failed download deletes the file left behind, before any request for it.
C9_LeftoverDeletedByNextRun ==
  /\ C9_KeptAndDeletedOnlyIfStale
  /\ (pc \in {"done", "failed"} /\ ~flags.dryrun) =>
       \A fn \in leftover :
         In(ArchiveOf(fn), archives) =>
           \E i \in At("unlink", fn) : \A j \in At("get", fn) : i < j

\* C9 amended: the run without --dryrun whose download loop next reaches the
\* archive of a failed download (every archive before it verified) deletes the
\* file left behind as the first thing of that download() call, before any
\* request for it.
C9_LeftoverDeletedWhenReached ==
  /\ C9_KeptAndDeletedOnlyIfStale
  /\ (Running /\ ~flags.dryrun) =>
       \A fn \in leftover :
         /\ \A i \in At("call", fn) :
              /\ log[i + 1].k = "unlink" /\ log[i + 1].a = fn
              /\ \A j \in At("get", fn) : i + 1 < j
         /\ (pc \in {"done", "failed"} /\ In(ArchiveOf(fn), archives)) =>
              \/ At("unlink", fn) # {}
              \/ pc = "failed" /\ call.ret # "return" /\ filename(call.a) # fn
                 /\ At("call", fn) = {}

C9_Witness ==
  \E fn \in leftover : At("unlink", fn) # {} /\ At("get", fn) # {} /\ pc = "done"

\* C10: without --dryrun, extraction opens the archive of the current
\* platform, on Windows or macOS only and never under --noninja, and only
\* after download() of that archive returned normally in the same run, the
\* file it opens matching the expected size and hash.
C10_ExtractsVerifiedArchive ==
  \A i \in Kinds({"open_zip"}) :
    /\ ~flags.dryrun /\ ~flags.noninja
    /\ is_windows(platform) \/ is_mac(platform)
    /\ log[i].a = filename(IF is_mac(platform) THEN NINJA_MAC ELSE NINJA_WIN)
    /\ \E j \in 1..(i - 1) : log[j] = Ev("return", log[i].a, <<>>)
    /\ Matches(File(log[i].d), ArchiveOf(log[i].a))
    /\ Matches(cache[log[i].a], ArchiveOf(log[i].a))

C10_Witness ==
  /\ Kinds({"open_zip"}) # {} /\ Kinds({"write"}) # {}
  /\ is_windows(platform) /\ flags.noqt

====
